---- MODULE Spec2Model ----
(***************************************************************************)
(* Model of the pudding component engine (src/pudding/core) driven by the  *)
(* two text components of examples/text_pipeline/components.py.            *)
(*                                                                         *)
(* Encoding of Python values:                                              *)
(*   - an Optional[str] is a string, None being the string None;           *)
(*   - an Optional[record] is a sequence of length 0 (None) or 1;          *)
(*   - a str payload text is a sequence of one-character strings;          *)
(*   - a dict is a function from key strings to values;                    *)
(*   - a file name is the sequence of its "_"-separated tokens (the        *)
(*     constant ".json" extension is left out);                            *)
(*   - a directory is a function from file names to files.                 *)
(***************************************************************************)
EXTENDS Naturals, Sequences, FiniteSets, TLC

VARIABLES
    now,        \* the wall clock, in the millisecond ticks of the file names
    dir,        \* dir[c]: the sample_data_dir of component c
    last,       \* the ComponentResult returned by the latest run (Optional)
    runs,       \* number of run calls made so far
    call,       \* latest run call: arguments, environment outcomes and trace
    chainR,     \* components of the current chain built by passing Results
    chainS,     \* components of the current chain built through samples
    lastInput,  \* lastInput[c]: the input sample c persisted last (Optional)
    prevInput,  \* lastInput of the called component when the latest call began
    nfailed,    \* failed runs so far (capped)
    thr,        \* thr[t]: thread t inside _save_sample (concurrent saves)
    reg,        \* the _components dict of the global registry
    kept,       \* a Result its caller keeps and feeds to several components
    regLog      \* the register calls made so far, in order

vars == <<now, dir, last, runs, call, chainR, chainS, lastInput, prevInput, nfailed, thr, reg,
          kept, regLog>>

-----------------------------------------------------------------------------
(* Bounds *)

MaxClock == 1
MaxRuns == 2
MaxReplay == 3
MaxChain == 3
MaxFail == 3
MaxStore == 3
MaxCompat == 2
MaxRetryRuns == 2
MaxRoundTrip == 2
MaxShare == 4
MaxRegister == 3
MaxLookup == 2
MaxFaithful == 3
MaxDown == 3

-----------------------------------------------------------------------------
(* Python values *)

None == "None"
NoneR == <<>>
Some(x) == <<x>>
IsSome(o) == o # <<>>
Get(o) == o[1]

EmptyDict == [k \in {} |-> None]

-----------------------------------------------------------------------------
(* examples/text_pipeline/components.py: schemas and components *)

Comps == {"text_loader", "text_cleaner"}

\* A component written against the engine's interface: a subclass of
\* TextCleaner that overrides prepare_input with a method of its own.
Adapter == "adapting_cleaner"

\* The third component of the text pipeline.
Counter == "word_counter"

AllComps == Comps \cup {Adapter, Counter}

\* A cleaner whose prepare_input is not idempotent: it puts a marker in front
\* of the text it is given.
Stamper == "stamping_cleaner"

\* A component whose input schema requires no field: it takes optional hints
\* and returns them.
Lenient == "lenient_loader"

\* Every component instance that has a sample directory.
Instances == AllComps \cup {Stamper, Lenient}

Version(c) == "1.0.0"

InputSchema(c) ==
    IF c = Counter THEN "CleanedText" ELSE IF c = Lenient THEN "Hints" ELSE "TextInput"

OutputSchema(c) ==
    IF c = "text_loader" THEN "TextInput"
    ELSE IF c = Lenient THEN "Hints"
    ELSE IF c = Counter THEN "WordStats" ELSE "CleanedText"

\* The fields a schema declares, the ones it requires, and its defaults.
Fields(S) ==
    CASE S = "TextInput" -> {"text", "source"}
      [] S = "CleanedText" -> {"text", "source", "changes_made"}
      [] S = "WordStats" -> {"total_words", "unique_words", "average_word_length",
                             "most_common_words", "source"}
      [] S = "Hints" -> {"source"}
      [] OTHER -> {}

Required(S) ==
    CASE S = "TextInput" -> {"text"}
      [] S = "CleanedText" -> {"text"}
      [] S = "WordStats" -> {"total_words", "unique_words", "average_word_length",
                             "most_common_words"}
      [] OTHER -> {}

Default(S, f) == IF f = "changes_made" THEN <<>> ELSE None

\* pydantic: S(**d). Fails when a required field is missing; extra keys are
\* ignored and absent optional fields take their default.
Validates(S, d) ==
    S \in {"TextInput", "CleanedText", "WordStats", "Hints"} /\ Required(S) \subseteq DOMAIN d

Validate(S, d) ==
    [cls |-> S,
     val |-> [f \in Fields(S) |-> IF f \in DOMAIN d THEN d[f] ELSE Default(S, f)]]

\* BaseModel.model_dump()
model_dump(m) == m.val

\* str methods used by TextCleaner.process, on sequences of characters.
IsSpace(ch) == ch = " "

RECURSIVE SplitFrom(_, _, _)
SplitFrom(s, i, word) ==
    IF i > Len(s) THEN (IF word = <<>> THEN <<>> ELSE <<word>>)
    ELSE IF IsSpace(s[i])
         THEN (IF word = <<>> THEN <<>> ELSE <<word>>) \o SplitFrom(s, i + 1, <<>>)
         ELSE SplitFrom(s, i + 1, Append(word, s[i]))

split(s) == SplitFrom(s, 1, <<>>)

RECURSIVE join(_)
join(words) ==
    IF words = <<>> THEN <<>>
    ELSE IF Len(words) = 1 THEN words[1]
    ELSE words[1] \o <<" ">> \o join(Tail(words))

lower(s) == [i \in 1..Len(s) |-> IF s[i] = "B" THEN "b" ELSE s[i]]

KeepChar(ch) == ch \in {"a", "b", " "}

re_sub(s) == SelectSeq(s, KeepChar)

TextLoaderProcess(input_data) == input_data

TextCleanerProcess(input_data) ==
    LET original == input_data.val.text
        cleaned1 == join(split(original))
        changes1 == IF cleaned1 # original THEN <<"removed_extra_whitespace">> ELSE <<>>
        cleaned2 == lower(cleaned1)
        changes2 == IF cleaned2 # lower(original)
                    THEN Append(changes1, "converted_to_lowercase") ELSE changes1
        cleaned3 == re_sub(cleaned2)
        changes3 == IF Len(cleaned3) # Len(original)
                    THEN Append(changes2, "removed_special_characters") ELSE changes2
    IN  [cls |-> "CleanedText",
         val |-> [text |-> cleaned3, source |-> input_data.val.source,
                  changes_made |-> changes3]]

\* A Python tuple, as distinct from the list of the same items.
Tuple(items) == [tuple |-> items]

\* Counter(words): the distinct words in the order of their first occurrence.
RECURSIVE Distinct(_, _)
Distinct(words, seen) ==
    IF words = <<>> THEN seen
    ELSE IF \E i \in 1..Len(seen) : seen[i] = Head(words)
         THEN Distinct(Tail(words), seen)
         ELSE Distinct(Tail(words), Append(seen, Head(words)))

Count(words, w) == Cardinality({i \in 1..Len(words) : words[i] = w})

\* x goes behind every pair whose count is not smaller: the sort is stable.
RECURSIVE InsertByCount(_, _)
InsertByCount(sorted, x) ==
    IF sorted = <<>> THEN <<x>>
    ELSE IF Head(sorted).tuple[2] >= x.tuple[2]
         THEN <<Head(sorted)>> \o InsertByCount(Tail(sorted), x)
         ELSE <<x>> \o sorted

RECURSIVE SortByCount(_, _)
SortByCount(pairs, sorted) ==
    IF pairs = <<>> THEN sorted
    ELSE SortByCount(Tail(pairs), InsertByCount(sorted, Head(pairs)))

\* Counter.most_common(n): (word, count) tuples, most frequent first, words of
\* equal count in the order of their first occurrence.
most_common(words, n) ==
    LET ws == Distinct(words, <<>>)
        pairs == [i \in 1..Len(ws) |-> Tuple(<<ws[i], Count(words, ws[i])>>)]
        sorted == SortByCount(pairs, <<>>)
    IN  SubSeq(sorted, 1, IF Len(sorted) < n THEN Len(sorted) ELSE n)

RECURSIVE SumLen(_)
SumLen(words) == IF words = <<>> THEN 0 ELSE Len(Head(words)) + SumLen(Tail(words))

\* round(avg_length, 2), in hundredths.
Round2(num, den) == (200 * num + den) \div (2 * den)

WordCounterProcess(input_data) ==
    LET words == split(input_data.val.text)
        total_words == Len(words)
    IN  [cls |-> "WordStats",
         val |-> [total_words |-> total_words,
                  unique_words |-> Len(Distinct(words, <<>>)),
                  average_word_length |->
                      IF total_words > 0 THEN Round2(SumLen(words), total_words) ELSE 0,
                  most_common_words |-> most_common(words, 5),
                  source |-> input_data.val.source]]

\* The abstract hook BaseComponent.process as the concrete components define it.
process(c, input_data) ==
    IF c \in {"text_loader", Lenient} THEN TextLoaderProcess(input_data)
    ELSE IF c = Counter THEN WordCounterProcess(input_data)
    ELSE TextCleanerProcess(input_data)

\* A value of some class that is not the output schema and does not validate.
JunkModel == [cls |-> "Junk", val |-> [junk |-> None]]

\* The component has an input-adaptation step of its own.
HasCustomPrepareInput(c) == c \in {Adapter, Stamper}

\* The __name__ of the function bound to c.prepare_input: a method a subclass
\* defines under the name prepare_input is named prepare_input, like the
\* method of BaseComponent it overrides.
PrepareInputName(c) == "prepare_input"

\* Line 180: self.prepare_input.__name__ != BaseComponent.prepare_input.__name__
Overrides(c) == PrepareInputName(c) # "prepare_input"

\* BaseComponent.prepare_input returns its argument; the override of the
\* adapting component keeps the keys of the input schema.
prepare_input(c, input_dict) ==
    IF c = Stamper
    THEN [input_dict EXCEPT !.text = <<"#">> \o @]
    ELSE IF HasCustomPrepareInput(c)
    THEN [k \in DOMAIN input_dict \cap {"text", "source"} |-> input_dict[k]]
    ELSE input_dict

-----------------------------------------------------------------------------
(* core/data_envelope.py *)

DataEnvelope(data_type, component_name, component_version, schema_name, execution_id, timestamp, lineage, data) ==
    [data_type |-> data_type, component_name |-> component_name,
     component_version |-> component_version, schema_name |-> schema_name,
     execution_id |-> execution_id, timestamp |-> timestamp,
     lineage |-> lineage, data |-> data]

ComponentMetadata(c, cfg) ==
    [component_name |-> c, component_version |-> Version(c),
     executed_at |-> now,
     execution_id |-> IF cfg.execution_id # None THEN cfg.execution_id ELSE "local_run",
     debug_mode |-> cfg.debug_mode,
     input_source_type |-> None, is_replay |-> FALSE, data_lineage |-> <<>>]

ComponentResult(data, metadata, error, envelope) ==
    [data |-> data, metadata |-> metadata, error |-> error, envelope |-> envelope]

NoError == <<>>

-----------------------------------------------------------------------------
(* core/config.py *)

\* SampleSaveMode is a Flag: a set of the bits INPUT and OUTPUT.
SampleSaveMode == SUBSET {"INPUT", "OUTPUT"}

Prefixes == {<<>>, <<"exp">>}

RunConfig(save_samples, sample_name_prefix, skip_compatibility_check, execution_id) ==
    [debug_mode |-> FALSE, save_samples |-> save_samples,
     execution_id |-> execution_id,
     skip_compatibility_check |-> skip_compatibility_check,
     timeout |-> None, max_retries |-> 0,
     sample_name_prefix |-> sample_name_prefix]

Configs ==
    {RunConfig(s, p, k, None) : s \in SampleSaveMode, p \in Prefixes, k \in {FALSE}}

-----------------------------------------------------------------------------
(* Sample store: core/base_component.py *)

COMPONENT_INPUT == "component_input"
COMPONENT_OUTPUT == "component_output"
RAW_DATA == "raw_data"

EmptyDir == [f \in {} |-> None]

\* strftime("%Y%m%d_%H%M%S_%f")[:-3]: a fixed-width rendering of the clock.
strftime(t) == ToString(t)

\* f"{counter:03d}"
Pad3(counter) == "00" \o ToString(counter)

\* JSON has no tuple: the encoder writes a tuple as an array, which loads as
\* a list. The one tuple-valued field of the schemas is most_common_words.
json_data(data) ==
    [k \in DOMAIN data |->
        IF k = "most_common_words"
        THEN [i \in 1..Len(data[k]) |-> data[k][i].tuple]
        ELSE data[k]]

\* json.dump(envelope.model_dump(), default=str): the datetime becomes a string.
json_dump(envelope) ==
    [envelope EXCEPT !.timestamp = ToString(envelope.timestamp),
                     !.data = json_data(envelope.data)]

\* DataEnvelope(**json.load(f)): the timestamp string is parsed back.
json_load(doc) ==
    [doc EXCEPT !.timestamp = CHOOSE t \in 0..MaxClock : ToString(t) = doc.timestamp]

\* The file name of a save: lines 277-288.
Filename(prefix, type_prefix, timestamp, counter) ==
    LET base_filename == IF prefix # <<>>
                         THEN prefix \o <<type_prefix, timestamp>>
                         ELSE <<type_prefix, timestamp>>
    IN  IF counter = 0 THEN base_filename ELSE Append(base_filename, Pad3(counter))

\* A save that never scans for a free name: it takes the counter it is given.
FreeCounter_First(d, prefix, type_prefix, timestamp, counter) == counter

\* The while loop of lines 283-293: the first counter whose name is free.
RECURSIVE FreeCounter(_, _, _, _, _)
FreeCounter(d, prefix, type_prefix, timestamp, counter) ==
    IF Filename(prefix, type_prefix, timestamp, counter) \notin DOMAIN d
    THEN counter
    ELSE FreeCounter(d, prefix, type_prefix, timestamp, counter + 1)

\* open(filepath, "w") and json.dump: creates the file or replaces its content.
WriteFile(d, filename, envelope) ==
    [f \in DOMAIN d \cup {filename} |->
        IF f = filename THEN [content |-> json_dump(envelope), mtime |-> now] ELSE d[f]]

SampleEnvelope(c, sample_type, data, metadata) ==
    DataEnvelope(sample_type, c, Version(c),
                 IF sample_type = COMPONENT_INPUT THEN InputSchema(c) ELSE OutputSchema(c),
                 metadata.execution_id, metadata.executed_at,
                 metadata.data_lineage, data)

TypePrefix(sample_type) == IF sample_type = COMPONENT_INPUT THEN "input" ELSE "output"

\* _save_sample on directory d: the directory after the save and the name used.
save_sample(d, c, sample_type, data, metadata, prefix) ==
    LET envelope == SampleEnvelope(c, sample_type, data, metadata)
        type_prefix == TypePrefix(sample_type)
        counter == FreeCounter(d, prefix, type_prefix, strftime(now), 0)
        filename == Filename(prefix, type_prefix, strftime(now), counter)
    IN  [files |-> WriteFile(d, filename, envelope), name |-> filename]

\* load_sample: Optional envelope, None standing for FileNotFoundError.
load_sample(d, filename) ==
    IF filename \notin DOMAIN d THEN NoneR ELSE Some(json_load(d[filename].content))

\* glob(f"{prefix}*.json"): the names that start with the kind prefix "input_".
Glob(d, prefix) == {f \in DOMAIN d : f[1] = prefix}

\* The tokens of file names in the order of their text: the characters of
\* "exp", "input", "output", and the fixed-width digits of a timestamp or of
\* a counter.
TokenRank(tok) ==
    CASE tok = "exp" -> 0
      [] tok = "input" -> 1
      [] tok = "output" -> 2
      [] OTHER -> 3 + CHOOSE n \in 0..(MaxClock + MaxStore + 1) :
                        tok = ToString(n) \/ tok = Pad3(n)

\* f sorts before g as file names: token by token, and a name that another
\* extends sorts first ("x.json" < "x_001.json").
RECURSIVE NameBefore(_, _)
NameBefore(f, g) ==
    IF f = <<>> THEN g # <<>>
    ELSE IF g = <<>> THEN FALSE
    ELSE IF Head(f) # Head(g) THEN TokenRank(Head(f)) < TokenRank(Head(g))
    ELSE NameBefore(Tail(f), Tail(g))

\* sorted(files): the names in ascending order.
RECURSIVE sorted(_)
sorted(files) ==
    IF files = {} THEN <<>>
    ELSE LET first == CHOOSE f \in files : \A g \in files \ {f} : NameBefore(f, g)
         IN  <<first>> \o sorted(files \ {first})

\* list_samples(sample_type): the sorted names that match
\* f"{sample_type}_*.json".
list_samples(d, sample_type) == sorted(Glob(d, sample_type))

\* max(files, key=st_mtime): a file of greatest modification time; between
\* files of equal time the directory's iteration order decides.
LatestFiles(d, data_type) ==
    LET files == Glob(d, IF data_type = COMPONENT_INPUT THEN "input" ELSE "output")
    IN  {f \in files : \A g \in files : d[g].mtime <= d[f].mtime}

\* _get_latest_envelope, `pick` being the file max() returns.
get_latest_envelope(d, data_type, pick) ==
    IF LatestFiles(d, data_type) = {} THEN NoneR ELSE load_sample(d, pick)

-----------------------------------------------------------------------------
(* core/registry.py *)

\* The value register stores under a component's name.
RegistryEntry(version, input_schema, output_schema) ==
    [version |-> version, input_schema |-> input_schema, output_schema |-> output_schema]

\* A registry whose first registration of a name stands: a later one for the
\* same name is dropped.
register_KeepFirst(components, name, version, input_schema, output_schema) ==
    [n \in DOMAIN components \cup {name} |->
        IF n \in DOMAIN components THEN components[n]
        ELSE RegistryEntry(version, input_schema, output_schema)]

\* ComponentRegistry.register: the dict after the assignment of line 20.
register(components, name, version, input_schema, output_schema) ==
    [n \in DOMAIN components \cup {name} |->
        IF n = name THEN RegistryEntry(version, input_schema, output_schema)
        ELSE components[n]]

\* A registry that connects any two registered components.
can_connect_AnyRegistered(from_component, to_component) ==
    IF from_component \in DOMAIN reg /\ to_component \in DOMAIN reg
    THEN <<TRUE, <<>>>>
    ELSE <<FALSE, <<"Component", from_component, to_component, "not registered">>>>

\* ComponentRegistry.can_connect: <<can, reason>>
can_connect(from_component, to_component) ==
    IF from_component \notin DOMAIN reg
    THEN <<FALSE, <<"Component", from_component, "not registered">>>>
    ELSE IF to_component \notin DOMAIN reg
    THEN <<FALSE, <<"Component", to_component, "not registered">>>>
    ELSE IF reg[from_component].output_schema = reg[to_component].input_schema
    THEN <<TRUE, <<>>>>
    ELSE <<FALSE, <<"Schema mismatch:", from_component, "outputs",
                    reg[from_component].output_schema, to_component, "expects",
                    reg[to_component].input_schema>>>>

-----------------------------------------------------------------------------
(* Inputs of run *)

PlainText == [text |-> <<"a">>]
DemoText == [text |-> <<"B", " ", " ", "a">>, source |-> "t1"]
CountText == [text |-> <<"a", " ", "b", " ", "b">>, source |-> "t1"]
Malformed == [wrong_field |-> <<"a">>]

Models == {[cls |-> "TextInput", val |-> [text |-> <<"a">>, source |-> None]]}

MissingName == <<"missing">>

\* The input_source values a caller can pass to c.run in the current state,
\* its mappings taken from maps.
Sources(c, maps) ==
    {[kind |-> "none"], [kind |-> "unsupported"], [kind |-> "bad_tuple"]}
    \cup {[kind |-> "dict", d |-> d] : d \in maps}
    \cup {[kind |-> "model", m |-> m] : m \in Models}
    \cup (IF IsSome(last) THEN {[kind |-> "result", r |-> Get(last)]} ELSE {})
    \cup (IF IsSome(last) /\ IsSome(Get(last).envelope)
          THEN {[kind |-> "envelope", e |-> Get(Get(last).envelope)]} ELSE {})
    \cup {[kind |-> "component", c2 |-> c2] : c2 \in Comps}
    \cup UNION {{[kind |-> "tuple", c2 |-> c2, f |-> f] :
                    f \in DOMAIN dir[c2] \cup {MissingName}} : c2 \in Comps}
    \cup {[kind |-> "str", f |-> f] : f \in DOMAIN dir[c] \cup {MissingName}}

\* What the transformation hook does in a run: the component's own process,
\* an exception, or a value that is no instance of the output schema.
Hooks == {"ok", "raise", "junk"}

\* The saves of a run that the file system refuses (OSError).
IoFailures == {{}, {"INPUT"}, {"OUTPUT"}}

\* The files max() may return for this call (NoPick when it is not consulted).
NoPick == <<"nopick">>

Picks(c, src) ==
    LET cands == IF src.kind = "none" THEN LatestFiles(dir[c], COMPONENT_INPUT)
                 ELSE IF src.kind = "component"
                      THEN LatestFiles(dir[src.c2], COMPONENT_OUTPUT)
                      ELSE {}
    IN  IF cands = {} THEN {NoPick} ELSE cands

-----------------------------------------------------------------------------
(* BaseComponent.run and its helpers *)

\* An exception: its class and the tokens of str(e).
Exc(cls, msg) == [cls |-> cls, msg |-> msg]

Raise(exc) == [ok |-> FALSE, exc |-> exc, envelope |-> NoneR]
Return(envelope) == [ok |-> TRUE, exc |-> Exc("", <<>>), envelope |-> Some(envelope)]

\* _normalize_to_envelope, in the order of its isinstance tests.
normalize_to_envelope(c, src, pick) ==
    CASE src.kind = "str" ->
            IF IsSome(load_sample(dir[c], src.f))
            THEN Return(Get(load_sample(dir[c], src.f)))
            ELSE Raise(Exc("FileNotFoundError", <<"Sample file not found:">> \o src.f))
      [] src.kind = "envelope" -> Return(src.e)
      [] src.kind = "result" ->
            IF IsSome(src.r.envelope) THEN Return(Get(src.r.envelope))
            ELSE Return(DataEnvelope(COMPONENT_OUTPUT,
                                     src.r.metadata.component_name,
                                     src.r.metadata.component_version,
                                     None,
                                     src.r.metadata.execution_id,
                                     src.r.metadata.executed_at,
                                     src.r.metadata.data_lineage,
                                     IF IsSome(src.r.data)
                                     THEN model_dump(Get(src.r.data)) ELSE EmptyDict))
      [] src.kind = "component" ->
            IF IsSome(get_latest_envelope(dir[src.c2], COMPONENT_OUTPUT, pick))
            THEN Return(Get(get_latest_envelope(dir[src.c2], COMPONENT_OUTPUT, pick)))
            ELSE Raise(Exc("ValueError", <<"No output samples found for", src.c2>>))
      [] src.kind = "model" ->
            Return(DataEnvelope(RAW_DATA, None, None, src.m.cls, None, now,
                                <<>>, model_dump(src.m)))
      [] src.kind = "dict" ->
            Return(DataEnvelope(RAW_DATA, None, None, None, None, now, <<>>, src.d))
      [] src.kind = "tuple" ->
            IF IsSome(load_sample(dir[src.c2], src.f))
            THEN Return(Get(load_sample(dir[src.c2], src.f)))
            ELSE Raise(Exc("FileNotFoundError", <<"Sample file not found:">> \o src.f))
      [] src.kind = "bad_tuple" ->
            Raise(Exc("ValueError", <<"First element of tuple must be a BaseComponent">>))
      [] OTHER -> Raise(Exc("ValueError", <<"Unsupported input source type">>))

\* _get_source_type_name, in the order of its isinstance tests; ComponentResult
\* and DataEnvelope are pydantic BaseModel subclasses.
get_source_type_name(src) ==
    CASE src.kind = "dict" -> "dict"
      [] src.kind = "model" -> "model:" \o src.m.cls
      [] src.kind = "result" -> "model:ComponentResult"
      [] src.kind = "envelope" -> "model:DataEnvelope"
      [] src.kind = "component" -> "component:" \o src.c2
      [] src.kind = "str" -> "file"
      [] OTHER -> "unknown"

\* can_process: <<can, reason>>
can_process(c, envelope) ==
    IF envelope.schema_name # None /\ envelope.schema_name # InputSchema(c)
    THEN IF Overrides(c)
         THEN <<TRUE, <<"Will transform using prepare_input()">>>>
         ELSE <<FALSE, <<"Schema mismatch: expects", InputSchema(c),
                         "got", envelope.schema_name>>>>
    ELSE <<TRUE, <<>>>>

\* Lines 357-362: the record a run appends to the lineage.
LineageRecord(c, metadata) ==
    [component |-> c, version |-> Version(c),
     timestamp |-> ToString(metadata.executed_at),
     execution_id |-> IF metadata.execution_id # None THEN metadata.execution_id ELSE ""]

\* A run that appends its record to the list of the input envelope itself.
InputAfter_InPlace(c, metadata, input_envelope) ==
    [input_envelope EXCEPT !.lineage = Append(@, LineageRecord(c, metadata))]

\* The input envelope when run returns. Lines 104 and 355-356 copy its lineage
\* before anything is appended, and lines 119-132 read its payload and write
\* nothing to it: the object is as the caller passed it.
InputAfter(c, metadata, input_envelope) == input_envelope

\* An output envelope that starts a lineage of its own instead of extending
\* the input's.
create_output_envelope_Fresh(c, output_data, metadata, input_envelope) ==
    DataEnvelope(COMPONENT_OUTPUT, c, Version(c), OutputSchema(c),
                 metadata.execution_id, metadata.executed_at,
                 <<LineageRecord(c, metadata)>>, model_dump(output_data))

\* _create_output_envelope
create_output_envelope(c, output_data, metadata, input_envelope) ==
    LET lineage == Append(input_envelope.lineage, LineageRecord(c, metadata))
    IN  DataEnvelope(COMPONENT_OUTPUT, c, Version(c), OutputSchema(c),
                     metadata.execution_id, metadata.executed_at,
                     lineage, model_dump(output_data))

\* error_msg = f"Component {self.name} failed: {str(e)}"
ErrorMsg(c, exc) == <<"Component", c, "failed:">> \o exc.msg

\* An except clause that names ValueError alone.
Caught_ValueErrorOnly(cls) == cls = "ValueError"

\* except Exception: the classes the clause of line 169 catches.
Caught(cls) ==
    cls \in {"ValueError", "FileNotFoundError", "ValidationError", "OSError",
             "RuntimeError"}

\* What a run did, for the properties: the envelope it resolved, the validated
\* input handed to the hook, the hook's behaviour when it was invoked, the
\* save flags when line 126 read them, the save that raised OSError, and the
\* names of the samples written.
Trace0 ==
    [resolved |-> NoneR, validated |-> NoneR, process_calls |-> 0,
     hook |-> "not_called", compat_checked |-> FALSE, save_samples |-> NoneR,
     io_failed |-> "no", input_saved |-> NoneR, output_saved |-> NoneR,
     propagated |-> FALSE, input_after |-> NoneR]

\* An except clause that swallows the exception: a Result with neither value
\* nor error.
Failure_Silent(c, metadata, exc, d, tr) ==
    [result |-> Some(ComponentResult(NoneR, metadata, NoError, NoneR)),
     files |-> d, trace |-> tr]

\* Lines 169-173: the except clause. An exception it does not catch reaches
\* the caller, who gets no Result.
Failure(c, metadata, exc, d, tr) ==
    IF Caught(exc.cls)
    THEN [result |-> Some(ComponentResult(NoneR, metadata, ErrorMsg(c, exc), NoneR)),
          files |-> d, trace |-> tr]
    ELSE [result |-> NoneR, files |-> d, trace |-> [tr EXCEPT !.propagated = TRUE]]

\* A run that writes the output sample whatever the save flags say.
run_output_AlwaysSaves(c, cfg, io, envelope, metadata, raw_output, d, tr) ==
    IF raw_output.cls # OutputSchema(c)
       /\ ~Validates(OutputSchema(c), model_dump(raw_output))
    THEN Failure(c, metadata, Exc("ValidationError", <<"validation error">>), d, tr)
    ELSE
    LET validated_output ==
            IF raw_output.cls = OutputSchema(c) THEN raw_output
            ELSE Validate(OutputSchema(c), model_dump(raw_output))
        output_envelope ==
            create_output_envelope(c, validated_output, metadata, envelope)
        result == ComponentResult(Some(validated_output), metadata, NoError,
                                  Some(output_envelope))
        tr1 == [tr EXCEPT !.input_after = Some(InputAfter(c, metadata, envelope))]
        saved == save_sample(d, c, COMPONENT_OUTPUT, model_dump(validated_output),
                             metadata, cfg.sample_name_prefix)
    IN  [result |-> Some(result), files |-> saved.files,
         trace |-> [tr1 EXCEPT !.output_saved = Some(saved.name)]]

\* A run that writes the output sample before it validates what the hook
\* returned.
run_output_SaveFirst(c, cfg, io, envelope, metadata, raw_output, d, tr) ==
    LET saving == "OUTPUT" \in cfg.save_samples
        saved == save_sample(d, c, COMPONENT_OUTPUT, model_dump(raw_output),
                             metadata, cfg.sample_name_prefix)
        d1 == IF saving THEN saved.files ELSE d
        tr1 == [tr EXCEPT !.input_after = Some(InputAfter(c, metadata, envelope)),
                          !.output_saved = IF saving THEN Some(saved.name) ELSE NoneR]
    IN  IF raw_output.cls # OutputSchema(c)
           /\ ~Validates(OutputSchema(c), model_dump(raw_output))
        THEN Failure(c, metadata, Exc("ValidationError", <<"validation error">>), d1, tr1)
        ELSE
        LET validated_output ==
                IF raw_output.cls = OutputSchema(c) THEN raw_output
                ELSE Validate(OutputSchema(c), model_dump(raw_output))
            output_envelope ==
                create_output_envelope(c, validated_output, metadata, envelope)
        IN  [result |-> Some(ComponentResult(Some(validated_output), metadata, NoError,
                                             Some(output_envelope))),
             files |-> d1, trace |-> tr1]

\* The outcome of the hook and of the output save: lines 137-167, raw_output
\* being what the hook returned and d the directory after the input save.
run_output(c, cfg, io, envelope, metadata, raw_output, d, tr) ==
    IF raw_output.cls # OutputSchema(c)
       /\ ~Validates(OutputSchema(c), model_dump(raw_output))
    THEN Failure(c, metadata, Exc("ValidationError", <<"validation error">>), d, tr)
    ELSE
    LET validated_output ==
            IF raw_output.cls = OutputSchema(c) THEN raw_output
            ELSE Validate(OutputSchema(c), model_dump(raw_output))
        output_envelope ==
            create_output_envelope(c, validated_output, metadata, envelope)
        result == ComponentResult(Some(validated_output), metadata, NoError,
                                  Some(output_envelope))
        tr1 == [tr EXCEPT !.input_after = Some(InputAfter(c, metadata, envelope))]
    IN  IF "OUTPUT" \in cfg.save_samples
        THEN IF "OUTPUT" \in io
             THEN Failure(c, metadata, Exc("OSError", <<"cannot write">>), d,
                          [tr1 EXCEPT !.io_failed = "OUTPUT"])
             ELSE LET saved == save_sample(d, c, COMPONENT_OUTPUT,
                                           model_dump(validated_output), metadata,
                                           cfg.sample_name_prefix)
                  IN  [result |-> Some(result), files |-> saved.files,
                       trace |-> [tr1 EXCEPT !.output_saved = Some(saved.name)]]
        ELSE [result |-> Some(result), files |-> d, trace |-> tr1]

\* A component that a failed run leaves unusable: once a run has returned a
\* failure Result, the next one fails before it invokes the hook.
run_process_Poisoned(c, cfg, hooks, ios, envelope, metadata, validated_input, d, tr) ==
    IF IsSome(last) /\ Get(last).error # NoError
    THEN {Failure(c, metadata, Exc("RuntimeError", <<"instance unusable">>), d, tr)}
    ELSE {run_output(c, cfg, {}, envelope, metadata, process(c, validated_input),
                     d, [tr EXCEPT !.hook = "ok"])}

\* A run that spends the retry budget: a hook that raises is invoked again
\* until max_retries further attempts have failed.
run_process_Retrying(c, cfg, hooks, ios, envelope, metadata, validated_input, d, tr) ==
    {IF hook = "raise"
     THEN Failure(c, metadata, Exc("RuntimeError", <<"process raised">>), d,
                  [tr EXCEPT !.hook = hook, !.process_calls = 1 + cfg.max_retries])
     ELSE run_output(c, cfg, {}, envelope, metadata,
                     IF hook = "junk" THEN JunkModel ELSE process(c, validated_input),
                     d, [tr EXCEPT !.hook = hook]) : hook \in hooks}

\* Lines 134-167, for each behaviour of the hook in hooks and each refusal of
\* the output save in ios: the set of possible outcomes.
run_process(c, cfg, hooks, ios, envelope, metadata, validated_input, d, tr) ==
    {IF hook = "raise"
     THEN Failure(c, metadata, Exc("RuntimeError", <<"process raised">>), d, [tr EXCEPT !.hook = hook])
     ELSE run_output(c, cfg, io, envelope, metadata,
                     IF hook = "junk" THEN JunkModel ELSE process(c, validated_input),
                     d, [tr EXCEPT !.hook = hook]) :
        hook \in hooks,
        io \in {x \in ios : "INPUT" \notin x /\ x \subseteq cfg.save_samples}}

\* A run that applies the compatibility check whatever the configuration says.
CompatFails_Always(c, cfg, envelope) == ~can_process(c, envelope)[1]

\* Lines 107-109: the check is applied unless the configuration skips it.
CompatFails(c, cfg, envelope) ==
    ~cfg.skip_compatibility_check /\ ~can_process(c, envelope)[1]

\* Lines 103-132: from the resolved envelope to the input save, then the rest.
run_envelope(c, src, cfg, hooks, ios, envelope, metadata0) ==
    LET metadata == [metadata0 EXCEPT
                        !.is_replay = (src.kind = "none"),
                        !.input_source_type =
                            IF src.kind = "none" THEN "latest_saved_input"
                            ELSE get_source_type_name(src),
                        !.data_lineage = envelope.lineage]
        tr1 == [Trace0 EXCEPT !.resolved = Some(envelope),
                              !.compat_checked = ~cfg.skip_compatibility_check]
        cp == can_process(c, envelope)
        transformed_input == prepare_input(c, envelope.data)
    IN  IF CompatFails(c, cfg, envelope)
        THEN {Failure(c, metadata,
                      Exc("ValueError",
                          <<"Component", c, "cannot process this data:">> \o cp[2]),
                      dir[c], tr1)}
        ELSE IF ~Validates(InputSchema(c), transformed_input)
        THEN {Failure(c, metadata, Exc("ValidationError", <<"validation error">>), dir[c], tr1)}
        ELSE
        LET validated_input == Validate(InputSchema(c), transformed_input)
            tr2 == [tr1 EXCEPT !.validated = Some(validated_input),
                               !.save_samples = Some(cfg.save_samples)]
            tr3 == [tr2 EXCEPT !.process_calls = 1]
        IN  IF "INPUT" \in cfg.save_samples
            THEN (IF {"INPUT"} \in ios
                  THEN {Failure(c, metadata, Exc("OSError", <<"cannot write">>), dir[c],
                                [tr2 EXCEPT !.io_failed = "INPUT"])}
                  ELSE {})
                 \cup
                 LET saved == save_sample(dir[c], c, COMPONENT_INPUT,
                                          transformed_input, metadata,
                                          cfg.sample_name_prefix)
                 IN  run_process(c, cfg, hooks, ios, envelope, metadata,
                                 validated_input, saved.files,
                                 [tr3 EXCEPT !.input_saved = Some(saved.name)])
            ELSE run_process(c, cfg, hooks, ios, envelope, metadata,
                             validated_input, dir[c], tr3)

\* BaseComponent.run: the possible outcomes of one call, each the Result
\* returned, the directory left and the trace.
run(c, src, cfg, hooks, ios, pick) ==
    LET metadata0 == ComponentMetadata(c, cfg)
        latest == get_latest_envelope(dir[c], COMPONENT_INPUT, pick)
        norm == IF src.kind = "none"
                THEN IF IsSome(latest) THEN Return(Get(latest))
                     ELSE Raise(Exc("ValueError", <<"No saved inputs found for", c>>))
                ELSE normalize_to_envelope(c, src, pick)
    IN  IF ~norm.ok
        THEN {Failure(c, metadata0, norm.exc, dir[c], Trace0)}
        ELSE run_envelope(c, src, cfg, hooks, ios, Get(norm.envelope), metadata0)

-----------------------------------------------------------------------------
(* The sequential system: callers issue run calls one after the other *)

\* The source as the call record keeps it: its kind and what names a sample.
SrcTag(src) ==
    CASE src.kind \in {"component"} -> [kind |-> src.kind, c2 |-> src.c2]
      [] src.kind \in {"tuple"} -> [kind |-> src.kind, c2 |-> src.c2, f |-> src.f]
      [] src.kind \in {"str"} -> [kind |-> src.kind, f |-> src.f]
      [] OTHER -> [kind |-> src.kind]

\* One call c.run(src, cfg) with src in srcs and cfg in cfgs; when
\* the run invokes the hook it behaves as one of hooks, and when it saves a
\* sample the file system refuses one of ios.
Call(c, srcs, cfgs, hooks, ios) ==
    \E src \in srcs, cfg \in cfgs :
    \E pick \in Picks(c, src) :
    \E out \in run(c, src, cfg, hooks, ios, pick) :
        /\ dir' = [dir EXCEPT ![c] = out.files]
        /\ last' = out.result
        /\ call' = Some([c |-> c, src |-> SrcTag(src), max_retries |-> cfg.max_retries,
                         execution_id |-> cfg.execution_id,
                         save_samples |-> cfg.save_samples, trace |-> out.trace])
        /\ runs' = runs + 1
        /\ UNCHANGED <<now, thr, reg, regLog>>

\* The latest call returned a success Result.
Succeeded == IsSome(last) /\ Get(last).error = NoError

\* Time passes between calls.
Tick ==
    /\ now < MaxClock
    /\ now' = now + 1
    /\ UNCHANGED <<dir, last, runs, call, chainR, chainS, lastInput, prevInput,
                   nfailed, thr, reg, kept, regLog>>

Threads == {"t1", "t2"}

Idle == [pc |-> "idle"]

Init ==
    /\ now = 0
    /\ dir = [c \in Instances |-> EmptyDir]
    /\ last = NoneR
    /\ runs = 0
    /\ call = NoneR
    /\ chainR = <<>>
    /\ chainS = <<>>
    /\ lastInput = [c \in Instances |-> NoneR]
    /\ prevInput = NoneR
    /\ nfailed = 0
    /\ thr = [t \in Threads |-> Idle]
    /\ kept = NoneR
    /\ regLog = <<>>
    /\ reg = [name \in Comps |-> RegistryEntry(Version(name), InputSchema(name),
                                                OutputSchema(name))]

\* Any call at all.
Run(c) ==
    /\ runs < MaxRuns
    /\ Call(c, Sources(c, {DemoText, Malformed}), Configs, Hooks, IoFailures)
    /\ UNCHANGED <<chainR, chainS, lastInput, prevInput, nfailed, kept>>

Next == \E c \in Comps : Run(c)

\* Any sequence of calls, all issued within one clock tick.
Spec == Init /\ [][Next]_vars

-----------------------------------------------------------------------------
(* Replay: calls of one component on fresh mappings and with no input source *)

\* The component of demo_replay_mode and demo_error_handling.
Replayed == "text_cleaner"

\* The input sample the component persisted last: its name and payload.
TrackInput(c) ==
    /\ prevInput' = lastInput[c]
    /\ lastInput' =
          LET saved == Get(call').trace.input_saved
          IN  IF IsSome(saved)
              THEN [lastInput EXCEPT ![c] =
                      Some([name |-> Get(saved),
                            data |-> dir'[c][Get(saved)].content.data,
                            validated |-> Get(call').trace.validated])]
              ELSE lastInput

ReplayRun ==
    /\ runs < MaxReplay
    /\ Call(Replayed,
            {x \in Sources(Replayed, {PlainText, DemoText}) : x.kind \in {"none", "dict"}},
            Configs, {"ok", "raise"}, {{}})
    /\ TrackInput(Replayed)
    /\ UNCHANGED <<chainR, chainS, nfailed, kept>>

NextReplay == Tick \/ ReplayRun

SpecReplay == Init /\ [][NextReplay]_vars

\* Runs of a component, with the identity prepare_input or with one of its
\* own, that save their input and runs that replay it.
FaithfulRun(c) ==
    /\ runs < MaxFaithful
    /\ Call(c, {x \in Sources(c, {PlainText, DemoText}) : x.kind \in {"none", "dict"}},
            {RunConfig(s, <<>>, FALSE, None) : s \in {{}, {"INPUT"}}}, {"ok"}, {{}})
    /\ TrackInput(c)
    /\ UNCHANGED <<chainR, chainS, nfailed, kept>>

NextFaithful == Tick \/ \E c \in {Replayed, Adapter, Stamper} : FaithfulRun(c)

SpecFaithful == Init /\ [][NextFaithful]_vars

-----------------------------------------------------------------------------
(* Pipelines: each call is fed by the previous one *)

\* A source that feeds a run from the previous run: its Result, its component,
\* or its component and the output sample it wrote.
Linked(src) ==
    \/ src.kind = "dict"
    \/ /\ IsSome(call)
       /\ \/ src.kind = "result"
          \/ src.kind = "component" /\ src.c2 = Get(call).c
          \/ /\ src.kind = "tuple"
             /\ src.c2 = Get(call).c
             /\ Some(src.f) = Get(call).trace.output_saved

ChainConfigs == {cfg \in Configs : cfg.sample_name_prefix = <<>>}

\* The chain of components linked by passing each Result to the next run.
NextChainR ==
    LET c == Get(call').c
        kind == Get(call').src.kind
    IN  IF ~Succeeded' THEN <<>>
        ELSE IF kind = "dict" THEN <<c>>
        ELSE IF kind = "result" /\ chainR # <<>> THEN Append(chainR, c)
        ELSE <<>>

\* The chain of components linked through persisted output samples: each run
\* saves its output and the next names the previous component, or the
\* previous component and the sample it has just written.
NextChainS ==
    LET c == Get(call').c
        kind == Get(call').src.kind
    IN  IF ~Succeeded' \/ ~IsSome(Get(call').trace.output_saved) THEN <<>>
        ELSE IF kind = "dict" THEN <<c>>
        ELSE IF kind \in {"component", "tuple"} /\ chainS # <<>>
             THEN Append(chainS, c)
        ELSE <<>>

ChainRun(c) ==
    /\ runs < MaxChain
    /\ Call(c, {x \in Sources(c, {DemoText}) : Linked(x)}, ChainConfigs, {"ok"}, {{}})
    /\ chainR' = NextChainR
    /\ chainS' = NextChainS
    /\ UNCHANGED <<lastInput, prevInput, nfailed, kept>>

NextChain == Tick \/ \E c \in Comps : ChainRun(c)

SpecChain == Init /\ [][NextChain]_vars

-----------------------------------------------------------------------------
(* Failures: calls with malformed and with valid explicit input *)

FailRun ==
    /\ runs < MaxFail
    /\ Call(Replayed,
            {x \in Sources(Replayed, {DemoText, Malformed}) :
                x.kind \in {"dict", "str", "bad_tuple", "unsupported"}},
            Configs, {"ok"}, {{}})
    /\ nfailed' = IF Succeeded' \/ nfailed = MaxFail THEN nfailed ELSE nfailed + 1
    /\ UNCHANGED <<chainR, chainS, lastInput, prevInput, kept>>

NextFail == FailRun

SpecFail == Init /\ [][NextFail]_vars

\* Chains in which a run may fail: each run is fed a mapping, valid or not, or
\* the Result of the run before it, success or failure.
DownRun(c) ==
    /\ runs < MaxDown
    /\ Call(c, {x \in Sources(c, {DemoText, Malformed}) : x.kind \in {"dict", "result"}},
            {RunConfig({}, <<>>, FALSE, None)}, {"ok", "raise"}, {{}})
    /\ UNCHANGED <<chainR, chainS, lastInput, prevInput, nfailed, kept>>

NextDown == \E c \in Comps \cup {Counter, Lenient} : DownRun(c)

SpecDown == Init /\ [][NextDown]_vars

-----------------------------------------------------------------------------
(* The sample store under sequential saves *)

StoreRun ==
    /\ runs < MaxStore
    /\ Call(Replayed,
            {x \in Sources(Replayed, {PlainText, DemoText}) : x.kind = "dict"},
            Configs, {"ok"}, {{}})
    /\ UNCHANGED <<chainR, chainS, lastInput, prevInput, nfailed, kept>>

NextStore == Tick \/ StoreRun

SpecStore == Init /\ [][NextStore]_vars

\* Configurations whose caller-supplied prefix is any of the words a caller
\* may choose, the names of the sample kinds among them.
LookupConfigs ==
    {RunConfig(s, p, FALSE, None) :
        s \in SampleSaveMode \ {{}}, p \in {<<>>, <<"exp">>, <<"input">>, <<"output">>}}

\* A saving run of the component whose samples are then looked up.
LookupRun ==
    /\ runs < MaxLookup
    /\ Call(Replayed, {x \in Sources(Replayed, {PlainText}) : x.kind = "dict"},
            LookupConfigs, {"ok"}, {{}})
    /\ UNCHANGED <<chainR, chainS, lastInput, prevInput, nfailed, kept>>

NextLookup == Tick \/ LookupRun

SpecLookup == Init /\ [][NextLookup]_vars

-----------------------------------------------------------------------------
(* The sample store under concurrent saves: two calls of run on one         *)
(* component instance, each in a thread of its own, are inside _save_sample. *)
(* Nothing orders the statements of one thread against the other's.          *)

\* Lines 258-280: the thread builds its envelope and its base file name.
Begin(t) ==
    /\ thr[t].pc = "idle"
    /\ \E sample_type \in {COMPONENT_INPUT, COMPONENT_OUTPUT},
          prefix \in Prefixes, data \in {PlainText, DemoText} :
          thr' = [thr EXCEPT ![t] =
                    [pc |-> "check",
                     envelope |-> SampleEnvelope(Replayed, sample_type, data,
                                     ComponentMetadata(Replayed,
                                         RunConfig({}, prefix, FALSE, None))),
                     prefix |-> prefix,
                     type_prefix |-> TypePrefix(sample_type),
                     timestamp |-> strftime(now),
                     counter |-> 0]]
    /\ UNCHANGED <<now, dir, last, runs, call, chainR, chainS, lastInput, prevInput,
                   nfailed, reg, kept, regLog>>

\* Lines 284-293: one iteration of the while loop.
Check(t) ==
    /\ thr[t].pc = "check"
    /\ LET filename == Filename(thr[t].prefix, thr[t].type_prefix,
                                thr[t].timestamp, thr[t].counter)
       IN  IF filename \notin DOMAIN dir[Replayed]
           THEN thr' = [thr EXCEPT ![t].pc = "write"]
           ELSE thr' = [thr EXCEPT ![t].counter = @ + 1]
    /\ UNCHANGED <<now, dir, last, runs, call, chainR, chainS, lastInput, prevInput,
                   nfailed, reg, kept, regLog>>

\* Lines 296-299: the file is opened for writing and the envelope dumped.
Write(t) ==
    /\ thr[t].pc = "write"
    /\ LET filename == Filename(thr[t].prefix, thr[t].type_prefix,
                                thr[t].timestamp, thr[t].counter)
       IN  dir' = [dir EXCEPT ![Replayed] = WriteFile(@, filename, thr[t].envelope)]
    /\ thr' = [thr EXCEPT ![t].pc = "done"]
    /\ UNCHANGED <<now, last, runs, call, chainR, chainS, lastInput, prevInput, nfailed,
                   reg, kept, regLog>>

NextConc == Tick \/ \E t \in Threads : Begin(t) \/ Check(t) \/ Write(t)

SpecConc == Init /\ [][NextConc]_vars

-----------------------------------------------------------------------------
(* Properties of the Result: any call at all (Spec) *)

\* The Result r is a failure Result of component c: no value, no envelope, and
\* an error message that embeds the component's name.
IsFailure(r, c) ==
    /\ r.data = NoneR
    /\ r.envelope = NoneR
    /\ r.error # NoError
    /\ \E i \in 1..Len(r.error) : r.error[i] = c

\* C1: whatever the input source, the configuration and the behaviour of the
\* transformation hook, the Result a run returns has exactly one of a value
\* and an error: a value and no error, or an error and no value.
C1_ExactlyOneOfValueOrError ==
    IsSome(last) => (IsSome(Get(last).data) <=> Get(last).error = NoError)

\* A run whose hook returned a value that fails output validation has
\* returned a Result with an error and no value.
C1_Witness ==
    /\ IsSome(call) /\ Get(call).trace.hook = "junk"
    /\ IsSome(last) /\ Get(last).data = NoneR /\ Get(last).error # NoError

\* The failure conditions of the latest call: no saved input on replay, an
\* unsupported input kind, a sample file that does not exist, a component with
\* no output sample, a schema mismatch, an input that fails validation, a hook
\* that raises, a hook output that fails validation, and a refused save.
FailureCondition ==
    LET c == Get(call).c
        src == Get(call).src
        tr == Get(call).trace
    IN  \/ src.kind = "none" /\ Glob(dir[c], "input") = {}
        \/ src.kind \in {"unsupported", "bad_tuple"}
        \/ src.kind \in {"str", "tuple"} /\ src.f = MissingName
        \/ src.kind = "component" /\ Glob(dir[src.c2], "output") = {}
        \/ IsSome(tr.resolved) /\ ~can_process(c, Get(tr.resolved))[1]
        \/ IsSome(tr.resolved) /\ ~Validates(InputSchema(c), Get(tr.resolved).data)
        \/ tr.hook \in {"raise", "junk"}
        \/ tr.io_failed # "no"

\* C2: run never propagates a failure: every call returns a Result, and under
\* each failure condition that Result is a failure Result whose error is
\* non-empty and embeds the component name.
C2_FailuresBecomeResults ==
    IsSome(call) =>
        /\ ~Get(call).trace.propagated
        /\ IsSome(last)
        /\ FailureCondition => IsFailure(Get(last), Get(call).c)

\* A run on an envelope of another schema has returned a failure Result.
C2_Witness ==
    /\ IsSome(call) /\ IsSome(Get(call).trace.resolved)
    /\ ~can_process(Get(call).c, Get(Get(call).trace.resolved))[1]
    /\ IsSome(last) /\ IsFailure(Get(last), Get(call).c)

-----------------------------------------------------------------------------
(* Properties of lineage (SpecChain) *)

\* The components the lineage of the latest output envelope names, in order.
LineageOf(r) == [i \in 1..Len(Get(r.envelope).lineage) |->
                    Get(r.envelope).lineage[i].component]

\* C3: when a chain is built by running the first component on a fresh mapping
\* and each next one on the Result of the previous, the output envelope's
\* lineage after N executions has N entries, entry i naming the i-th
\* component executed.
C3_LineageFollowsResults ==
    chainR # <<>> => Succeeded /\ LineageOf(Get(last)) = chainR

\* A chain of three executions by two different components.
C3_Witness ==
    /\ Len(chainR) = 3 /\ chainR[2] # chainR[3]
    /\ Succeeded /\ Len(Get(Get(last).envelope).lineage) = 3

\* C4, as the specification states it: when every run saves its output and the
\* next component is run on the previous component, or on the previous
\* component and its sample, the output envelope's lineage after N executions
\* has N entries, one per component executed, in order.
C4_LineageFollowsSamples ==
    chainS # <<>> => Succeeded /\ LineageOf(Get(last)) = chainS

-----------------------------------------------------------------------------
(* Properties of replay (SpecReplay) *)

\* The latest call was a run with no input source made after some run of the
\* same component had persisted an input sample.
ReplayAfterSave ==
    IsSome(call) /\ Get(call).src.kind = "none" /\ IsSome(prevInput)

\* C5, as the specification states it: a run with no input source made after
\* a run that persisted an input sample resolves its input payload to the
\* payload of that sample, and its Result's metadata has the replay flag set.
C5_ReplayCorrect ==
    ReplayAfterSave =>
        /\ IsSome(Get(call).trace.resolved)
        /\ Get(Get(call).trace.resolved).data = Get(prevInput).data
        /\ IsSome(last) /\ Get(last).metadata.is_replay

\* C6, as the specification states it: whatever prefix the saving runs were
\* configured with, a run with no input source uses the input sample that was
\* persisted last and does not fail for want of a saved input.
C6_ReplayFindsLatest ==
    ReplayAfterSave =>
        /\ Get(call).trace.resolved = load_sample(dir[Replayed], Get(prevInput).name)
        /\ IsSome(last)
        /\ Get(last).error # ErrorMsg(Replayed,
                                Exc("ValueError", <<"No saved inputs found for", Replayed>>))

\* C9, as the specification states it: with input saving configured the input
\* sample is persisted before the hook is invoked, so when the hook fails the
\* run returns a failure Result, the input sample of that run is in the store,
\* and it is the sample a following run with no input source replays.
C9_InputReplayableAfterFailure ==
    (IsSome(call) /\ Get(call).trace.process_calls > 0
        /\ "INPUT" \in Get(Get(call).trace.save_samples)) =>
        LET c == Get(call).c
            tr == Get(call).trace
        IN  /\ IsSome(tr.input_saved)
            /\ Get(tr.input_saved) \in DOMAIN dir[c]
            /\ tr.hook = "raise" =>
                  /\ IsSome(last) /\ IsFailure(Get(last), c)
                  /\ \A pick \in Picks(c, [kind |-> "none"]) :
                        get_latest_envelope(dir[c], COMPONENT_INPUT, pick)
                            = load_sample(dir[c], Get(tr.input_saved))

-----------------------------------------------------------------------------
(* Properties of the sample store (SpecStore, SpecConc) *)

\* The names of the samples the latest run wrote.
SavedBy(cl) ==
    {Get(x) : x \in {y \in {cl.trace.input_saved, cl.trace.output_saved} : IsSome(y)}}

\* The number of saves the latest run made.
SavesOf(cl) ==
    (IF IsSome(cl.trace.input_saved) THEN 1 ELSE 0)
    + (IF IsSome(cl.trace.output_saved) THEN 1 ELSE 0)

\* C7: in a sequence of saves on one component, saves of the same kind and
\* prefix within one clock tick included, every save creates a file under a
\* name that was not present, the set of files only grows, and every file
\* that existed keeps its content.
C7_SequentialSavesNeverOverwrite ==
    [][runs' = runs + 1 =>
        LET c == Get(call').c
            saved == SavedBy(Get(call'))
        IN  /\ \A f \in DOMAIN dir[c] : f \in DOMAIN dir'[c] /\ dir'[c][f] = dir[c][f]
            /\ \A c2 \in Comps \ {c} : dir'[c2] = dir[c2]
            /\ saved \cap DOMAIN dir[c] = {}
            /\ DOMAIN dir'[c] = DOMAIN dir[c] \cup saved
            /\ Cardinality(saved) = SavesOf(Get(call'))]_vars

\* Three saves of one kind and prefix within one clock tick: the third went to
\* the name with suffix 002, beside the unsuffixed name and the one with 001.
C7_Witness ==
    \E f \in DOMAIN dir[Replayed] :
        /\ f[Len(f)] = Pad3(2)
        /\ SubSeq(f, 1, Len(f) - 1) \in DOMAIN dir[Replayed]
        /\ Append(SubSeq(f, 1, Len(f) - 1), Pad3(1)) \in DOMAIN dir[Replayed]
        /\ dir[Replayed][f].mtime = dir[Replayed][SubSeq(f, 1, Len(f) - 1)].mtime

\* The file name thread t writes to.
NameOf(t) ==
    Filename(thr[t].prefix, thr[t].type_prefix, thr[t].timestamp, thr[t].counter)

\* C8, as the specification states it: when two concurrent runs on one
\* component instance both save a sample of the same kind with the same
\* timestamp, then under every interleaving of their existence checks and
\* writes the two saves end up in two different files and neither sample is
\* lost or overwritten.
C8_ConcurrentSavesDistinct ==
    (/\ \A t \in Threads : thr[t].pc = "done"
     /\ thr["t1"].prefix = thr["t2"].prefix
     /\ thr["t1"].type_prefix = thr["t2"].type_prefix
     /\ thr["t1"].timestamp = thr["t2"].timestamp) =>
        /\ NameOf("t1") # NameOf("t2")
        /\ \A t \in Threads :
              /\ NameOf(t) \in DOMAIN dir[Replayed]
              /\ dir[Replayed][NameOf(t)].content = json_dump(thr[t].envelope)

-----------------------------------------------------------------------------
(* Properties of failed runs (SpecFail) *)

\* C10: after any number of failed runs with malformed input, a run on the
\* same instance with a valid explicit mapping succeeds, and the value it
\* returns is the one the component computes from that mapping alone.
C10_FailuresLeaveNoDamage ==
    (/\ IsSome(call) /\ Get(call).src.kind = "dict"
     /\ IsSome(Get(call).trace.resolved)
     /\ Validates(InputSchema(Get(call).c), Get(Get(call).trace.resolved).data)) =>
        /\ Succeeded
        /\ Get(last).data =
              Some(process(Get(call).c,
                           Validate(InputSchema(Get(call).c),
                                    Get(Get(call).trace.resolved).data)))

\* Two runs have failed and the run that followed, on a valid mapping,
\* succeeded.
C10_Witness ==
    /\ nfailed >= 2
    /\ IsSome(call) /\ Get(call).src.kind = "dict"
    /\ Succeeded

-----------------------------------------------------------------------------
(* Compatibility: runs on envelopes of every schema, by components with and   *)
(* without an input-adaptation step, with the check enabled and disabled      *)

CompatConfigs == {RunConfig({}, <<>>, k, id) : k \in BOOLEAN, id \in {None, "exec-1"}}

CompatRun(c) ==
    /\ runs < MaxCompat
    /\ Call(c,
            {x \in Sources(c, {DemoText}) : x.kind \in {"dict", "model", "result", "envelope"}},
            CompatConfigs, {"ok"}, {{}})
    /\ UNCHANGED <<chainR, chainS, lastInput, prevInput, nfailed, kept>>

NextCompat == Tick \/ \E c \in AllComps : CompatRun(c)

SpecCompat == Init /\ [][NextCompat]_vars

\* The envelope the latest call resolved its input source to.
Resolved == Get(Get(call).trace.resolved)

\* C11, as the specification states it: the compatibility check fails exactly
\* when the envelope declares a schema name, the name differs from the
\* component's input schema name and the component has no input-adaptation
\* step of its own; a component that overrides the hook passes, and the reason
\* of a failure names both schemas.
C11_CompatibilityCheck ==
    (IsSome(call) /\ IsSome(Get(call).trace.resolved)) =>
        LET c == Get(call).c
            cp == can_process(c, Resolved)
            mismatch == /\ Resolved.schema_name # None
                        /\ Resolved.schema_name # InputSchema(c)
                        /\ ~HasCustomPrepareInput(c)
        IN  /\ cp[1] = ~mismatch
            /\ ~cp[1] => /\ \E i \in 1..Len(cp[2]) : cp[2][i] = InputSchema(c)
                         /\ \E i \in 1..Len(cp[2]) : cp[2][i] = Resolved.schema_name

-----------------------------------------------------------------------------
(* The registry: components register, with any schema names, in any order *)

RegNames == Comps \cup {"word_counter"}

Schemas == {"TextInput", "CleanedText", "WordStats"}

Register ==
    /\ \E name \in RegNames, input_schema \in Schemas, output_schema \in Schemas :
          reg' = register(reg, name, "1.0.0", input_schema, output_schema)
    /\ UNCHANGED <<now, dir, last, runs, call, chainR, chainS, lastInput, prevInput,
                   nfailed, thr, kept, regLog>>

NextRegistry == Register

SpecRegistry == Init /\ [][NextRegistry]_vars

\* A register call that is also written to the log of calls.
LoggedRegister ==
    /\ Len(regLog) < MaxRegister
    /\ \E name \in RegNames, input_schema \in Schemas, output_schema \in Schemas :
          /\ reg' = register(reg, name, "1.0.0", input_schema, output_schema)
          /\ regLog' = Append(regLog, [name |-> name,
                                       entry |-> RegistryEntry("1.0.0", input_schema,
                                                               output_schema)])
    /\ UNCHANGED <<now, dir, last, runs, call, chainR, chainS, lastInput, prevInput,
                   nfailed, thr, kept>>

NextRegisterLog == LoggedRegister

SpecRegisterLog == Init /\ [][NextRegisterLog]_vars

\* The token x occurs in the reason.
Names(reason, x) == \E i \in 1..Len(reason) : reason[i] = x

\* C12: can_connect(A, B) succeeds if and only if both names are registered
\* and A's output schema name equals B's input schema name; when a name is
\* not registered the reason names a missing name, and when the schemas differ
\* the reason names both schema names.
C12_CanConnect ==
    \A A \in RegNames, B \in RegNames :
        LET r == can_connect(A, B)
            both == A \in DOMAIN reg /\ B \in DOMAIN reg
        IN  /\ r[1] <=> (both /\ reg[A].output_schema = reg[B].input_schema)
            /\ A \notin DOMAIN reg => Names(r[2], A)
            /\ (A \in DOMAIN reg /\ B \notin DOMAIN reg) => Names(r[2], B)
            /\ (both /\ ~r[1]) =>
                  /\ Names(r[2], reg[A].output_schema)
                  /\ Names(r[2], reg[B].input_schema)

\* The registry of demo_registry: word_counter expects CleanedText, so
\* text_cleaner connects to it and text_loader does not.
C12_Witness ==
    /\ "word_counter" \in DOMAIN reg
    /\ reg["word_counter"].input_schema = "CleanedText"
    /\ reg["text_loader"].output_schema = "TextInput"
    /\ reg["text_cleaner"].output_schema = "CleanedText"
    /\ can_connect("text_cleaner", "word_counter")[1]
    /\ ~can_connect("text_loader", "word_counter")[1]

-----------------------------------------------------------------------------
(* Retries: runs under configurations that carry a retry budget and a timeout *)

RetryConfigs ==
    {[RunConfig(s, <<>>, FALSE, None) EXCEPT !.max_retries = n, !.timeout = t] :
        s \in {{}, {"INPUT", "OUTPUT"}}, n \in {0, 2}, t \in {None, "1.0"}}

RetryRun(c) ==
    /\ runs < MaxRetryRuns
    /\ Call(c,
            {x \in Sources(c, {DemoText, Malformed}) : x.kind \in {"dict", "none", "result"}},
            RetryConfigs, Hooks, {{}})
    /\ UNCHANGED <<chainR, chainS, lastInput, prevInput, nfailed, kept>>

NextRetry == \E c \in Comps : RetryRun(c)

SpecRetry == Init /\ [][NextRetry]_vars

\* C13: whatever retry budget and timeout the configuration carries, a run
\* invokes the transformation hook at most once, and a run that returns a
\* success Result has invoked it exactly once.
C13_NoRetries ==
    IsSome(call) =>
        /\ Get(call).trace.process_calls <= 1
        /\ Succeeded => Get(call).trace.process_calls = 1

\* A run with a retry budget of two whose hook raised: it was invoked once
\* and the run returned a failure Result.
C13_Witness ==
    /\ IsSome(call) /\ Get(call).max_retries = 2
    /\ Get(call).trace.hook = "raise"
    /\ Get(call).trace.process_calls = 1
    /\ IsSome(last) /\ Get(last).error # NoError

-----------------------------------------------------------------------------
(* Round trip: runs that save samples, by a component with string payloads   *)
(* and by the one whose output carries tuples                                 *)

RoundTripRun(c) ==
    /\ runs < MaxRoundTrip
    /\ Call(c, {x \in Sources(c, {DemoText, CountText}) : x.kind = "dict"},
            Configs, {"ok"}, {{}})
    /\ UNCHANGED <<chainR, chainS, lastInput, prevInput, nfailed, kept>>

NextRoundTrip == Tick \/ \E c \in {"text_cleaner", Counter} : RoundTripRun(c)

SpecRoundTrip == Init /\ [][NextRoundTrip]_vars

\* The envelope loaded equals the envelope saved in every field but the
\* timestamp, which is equal as a string.
SameEnvelope(loaded, saved) ==
    /\ loaded.data_type = saved.data_type
    /\ loaded.component_name = saved.component_name
    /\ loaded.component_version = saved.component_version
    /\ loaded.schema_name = saved.schema_name
    /\ loaded.execution_id = saved.execution_id
    /\ loaded.lineage = saved.lineage
    /\ loaded.data = saved.data
    /\ ToString(loaded.timestamp) = ToString(saved.timestamp)

\* C14, as the specification states it: loading the file a save created
\* yields an envelope equal to the saved one in data kind, component name and
\* version, schema name, execution id, lineage and payload, the timestamp
\* equal up to its formatting.
C14_SaveLoadRoundTrip ==
    IsSome(call) =>
        LET c == Get(call).c
            tr == Get(call).trace
        IN  /\ IsSome(tr.input_saved) =>
                  /\ IsSome(load_sample(dir[c], Get(tr.input_saved)))
                  /\ SameEnvelope(Get(load_sample(dir[c], Get(tr.input_saved))),
                                  SampleEnvelope(c, COMPONENT_INPUT,
                                                 prepare_input(c, Resolved.data),
                                                 Get(last).metadata))
            /\ IsSome(tr.output_saved) =>
                  /\ IsSome(load_sample(dir[c], Get(tr.output_saved)))
                  /\ SameEnvelope(Get(load_sample(dir[c], Get(tr.output_saved))),
                                  SampleEnvelope(c, COMPONENT_OUTPUT,
                                                 model_dump(Get(Get(last).data)),
                                                 Get(last).metadata))

-----------------------------------------------------------------------------
(* Properties of the metadata (SpecReplay, SpecCompat) *)

\* C15, as the specification states it: every Result of a run with no input
\* source has the replay flag set, when the replay succeeds and when it fails
\* for want of a saved input, and every Result of a run with an input source
\* has it unset.
C15_ReplayFlag ==
    (IsSome(call) /\ IsSome(last)) =>
        (Get(last).metadata.is_replay <=> Get(call).src.kind = "none")

\* C16, as the specification states it: the lineage record a successful run
\* appends carries the empty string as execution id when the configuration
\* supplies none, and the configured execution id otherwise.
C16_LineageExecutionId ==
    (IsSome(call) /\ Succeeded) =>
        LET lineage == Get(Get(last).envelope).lineage
        IN  lineage[Len(lineage)].execution_id =
                IF Get(call).execution_id = None THEN "" ELSE Get(call).execution_id

\* The error of a run that the compatibility check refused.
MismatchError(c, envelope) ==
    ErrorMsg(c, Exc("ValueError", <<"Component", c, "cannot process this data:">>
                                  \o can_process(c, envelope)[2]))

\* C17: when the configuration disables the compatibility check, no run fails
\* with a schema mismatch, and an envelope of another declared schema is
\* processed successfully whenever its payload validates against the input
\* schema.
C17_CheckDisabled ==
    (IsSome(call) /\ IsSome(Get(call).trace.resolved)
        /\ ~Get(call).trace.compat_checked) =>
        LET c == Get(call).c
        IN  /\ IsSome(last)
            /\ Get(last).error # MismatchError(c, Resolved)
            /\ Validates(InputSchema(c), prepare_input(c, Resolved.data)) => Succeeded

\* With the check disabled, the cleaner has processed an envelope that
\* declares the schema CleanedText.
C17_Witness ==
    /\ IsSome(call) /\ IsSome(Get(call).trace.resolved)
    /\ ~Get(call).trace.compat_checked
    /\ ~HasCustomPrepareInput(Get(call).c)
    /\ Resolved.schema_name # None
    /\ Resolved.schema_name # InputSchema(Get(call).c)
    /\ Succeeded

-----------------------------------------------------------------------------
(* Sharing: a caller keeps the Result of the loader and feeds it to several  *)
(* components, one after the other                                           *)

\* The first run: the loader on a fresh mapping; its Result is kept.
KeepRun ==
    /\ runs = 0
    /\ Call("text_loader", {x \in Sources("text_loader", {DemoText}) : x.kind = "dict"},
            ChainConfigs, {"ok"}, {{}})
    /\ kept' = IF Succeeded' THEN Some([r |-> Get(last'), orig |-> Get(last'), fed |-> {}])
               ELSE NoneR
    /\ UNCHANGED <<chainR, chainS, lastInput, prevInput, nfailed>>

\* A run of c on the kept Result. r is the kept object as the run leaves it.
ShareRun(c) ==
    /\ IsSome(kept)
    /\ runs < MaxShare
    /\ Call(c, {[kind |-> "result", r |-> Get(kept).r]},
            {RunConfig({}, <<>>, FALSE, None)}, {"ok", "raise"}, {{}})
    /\ kept' = Some([Get(kept) EXCEPT
                        !.r = IF IsSome(Get(call').trace.input_after)
                              THEN [@ EXCEPT !.envelope = Get(call').trace.input_after]
                              ELSE @,
                        !.fed = @ \cup {c}])
    /\ UNCHANGED <<chainR, chainS, lastInput, prevInput, nfailed>>

NextShare == Tick \/ KeepRun \/ \E c \in AllComps : ShareRun(c)

SpecShare == Init /\ [][NextShare]_vars

\* C18: a run, successful or not, leaves the envelope it was given as it was,
\* lineage and payload; the lineage of the output envelope is the input's
\* lineage followed by one record naming this component and its version. So
\* each component that is fed the kept Result returns the prior lineage plus
\* its own record only.
C18_InputUntouched ==
    IsSome(kept) =>
        /\ Get(kept).r = Get(kept).orig
        /\ (Get(kept).fed # {} /\ Succeeded) =>
              LET before == Get(Get(kept).orig.envelope).lineage
                  after == Get(Get(last).envelope).lineage
              IN  /\ Len(after) = Len(before) + 1
                  /\ SubSeq(after, 1, Len(before)) = before
                  /\ after[Len(after)].component = Get(call).c
                  /\ after[Len(after)].version = Version(Get(call).c)

\* The kept Result has been fed to two components with success and to one
\* that refused it, and the latest of these runs succeeded.
C18_Witness ==
    /\ IsSome(kept) /\ Cardinality(Get(kept).fed) = 3
    /\ Succeeded /\ Len(Get(Get(last).envelope).lineage) = 2

-----------------------------------------------------------------------------
(* Properties of the writes of a run (Spec) *)

\* The samples of one kind that the step added to the directory of c.
NewSamples(c, sample_type) ==
    {f \in DOMAIN dir'[c] \ DOMAIN dir[c] : dir'[c][f].content.data_type = sample_type}

\* The step leaves every file that existed as it was.
FilesKept ==
    \A c \in AllComps : \A f \in DOMAIN dir[c] :
        f \in DOMAIN dir'[c] /\ dir'[c][f] = dir[c][f]

\* C19: sample writes are governed by the save flags alone: a run configured
\* to save nothing leaves every sample directory unchanged whether it succeeds
\* or fails, and a successful run adds exactly one input sample iff the
\* save-input flag is set and exactly one output sample iff the save-output
\* flag is set, to its own directory and to no other.
C19_SaveFlagsGovernWrites ==
    [][runs' = runs + 1 =>
        LET c == Get(call').c
            flags == Get(call').save_samples
        IN  /\ flags = {} => dir' = dir
            /\ Succeeded' =>
                  /\ Cardinality(NewSamples(c, COMPONENT_INPUT))
                        = IF "INPUT" \in flags THEN 1 ELSE 0
                  /\ Cardinality(NewSamples(c, COMPONENT_OUTPUT))
                        = IF "OUTPUT" \in flags THEN 1 ELSE 0
                  /\ FilesKept
                  /\ \A c2 \in AllComps \ {c} : dir'[c2] = dir[c2]]_vars

\* A successful run configured to save both kinds has written two samples,
\* one of each kind, after an earlier run had already written to the directory.
C19_Witness ==
    /\ IsSome(call) /\ Succeeded
    /\ Get(call).save_samples = {"INPUT", "OUTPUT"}
    /\ LET tr == Get(call).trace
           d == dir[Get(call).c]
       IN  /\ IsSome(tr.input_saved) /\ IsSome(tr.output_saved)
           /\ {Get(tr.input_saved), Get(tr.output_saved)} \subseteq DOMAIN d
           /\ d[Get(tr.input_saved)].content.data_type = COMPONENT_INPUT
           /\ d[Get(tr.output_saved)].content.data_type = COMPONENT_OUTPUT
           /\ Cardinality(DOMAIN d) > 2

\* C20: a run that fails before the save-input step never invokes the
\* transformation hook and writes no file, whatever its save flags; and an
\* output sample is written only by a run whose hook returned and whose output
\* passed validation.
C20_EarlyFailuresWriteNothing ==
    [][runs' = runs + 1 =>
        LET c == Get(call').c
            tr == Get(call').trace
        IN  /\ tr.save_samples = NoneR =>
                  /\ ~Succeeded'
                  /\ tr.process_calls = 0 /\ tr.hook = "not_called"
                  /\ dir' = dir
            /\ NewSamples(c, COMPONENT_OUTPUT) # {} =>
                  /\ tr.hook = "ok"
                  /\ Succeeded'
                  /\ Validates(OutputSchema(c), model_dump(Get(Get(last').data)))]_vars

\* A run configured to save both kinds was refused by the compatibility check:
\* it resolved an envelope, never reached the save-input step and returned a
\* failure, its directory still holding nothing.
C20_Witness ==
    /\ IsSome(call) /\ IsSome(last) /\ Get(last).error # NoError
    /\ Get(call).save_samples = {"INPUT", "OUTPUT"}
    /\ LET tr == Get(call).trace
       IN  /\ IsSome(tr.resolved) /\ tr.compat_checked
           /\ tr.save_samples = NoneR
           /\ Get(last).error = MismatchError(Get(call).c, Get(tr.resolved))
    /\ dir[Get(call).c] = EmptyDir

-----------------------------------------------------------------------------
(* Properties of re-registration (SpecRegisterLog) *)

\* The positions of the log that registered name.
CallsFor(name) == {i \in 1..Len(regLog) : regLog[i].name = name}

\* The last registration made for name: the last logged call for it, or the
\* one its constructor made when no call was logged; none for a name never
\* registered.
LastFor(name) ==
    IF CallsFor(name) # {}
    THEN Some(regLog[CHOOSE i \in CallsFor(name) : \A j \in CallsFor(name) : j <= i].entry)
    ELSE IF name \in Comps
    THEN Some(RegistryEntry(Version(name), InputSchema(name), OutputSchema(name)))
    ELSE NoneR

\* C21: after any sequence of register calls, can_connect(A, B) is decided
\* by the last registration made for A and the last one made for B alone, and
\* a register call that repeats the call before it leaves the registry as it
\* was.
C21_LastRegistrationWins ==
    /\ [](\A A \in RegNames, B \in RegNames :
            /\ (A \in DOMAIN reg) <=> IsSome(LastFor(A))
            /\ can_connect(A, B)[1] <=>
                  /\ IsSome(LastFor(A)) /\ IsSome(LastFor(B))
                  /\ Get(LastFor(A)).output_schema = Get(LastFor(B)).input_schema)
    /\ [][(Len(regLog') = Len(regLog) + 1 /\ Len(regLog) > 0
           /\ regLog'[Len(regLog')] = regLog[Len(regLog)]) => reg' = reg]_vars

\* word_counter was registered with an input schema text_cleaner cannot feed,
\* then twice with CleanedText: the two names connect.
C21_Witness ==
    /\ Len(regLog) = 3
    /\ regLog[1].name = "word_counter" /\ regLog[2].name = "word_counter"
    /\ regLog[1].entry.input_schema = "WordStats"
    /\ regLog[2].entry.input_schema = "CleanedText"
    /\ regLog[3] = regLog[2]
    /\ can_connect("text_cleaner", "word_counter")[1]

-----------------------------------------------------------------------------
(* Properties of the listing and of the latest-sample lookup (SpecStore) *)

\* The files of d that were saved as samples of the kind sample_type.
SavedAs(d, sample_type) == {f \in DOMAIN d : d[f].content.data_type = sample_type}

\* The elements of a sequence.
Range(seq) == {seq[i] : i \in 1..Len(seq)}

\* C22: listing the samples of a kind returns the names of all samples of
\* that kind persisted so far on the component, samples saved under a
\* caller-supplied prefix included, and no sample of the other kind, in
\* ascending order of the names.
C22_ListSamplesByKind ==
    \A sample_type \in {COMPONENT_INPUT, COMPONENT_OUTPUT} :
        LET listed == list_samples(dir[Replayed], TypePrefix(sample_type))
        IN  /\ Range(listed) = SavedAs(dir[Replayed], sample_type)
            /\ \A i \in 1..Len(listed), j \in 1..Len(listed) :
                  i < j => NameBefore(listed[i], listed[j])

\* C23: after any sequence of saves under any caller-supplied prefixes, the
\* latest-input lookup returns only an envelope that was saved as an input
\* sample and the latest-output lookup only one saved as an output sample,
\* and each returns none when no sample of its kind exists.
C23_LookupRespectsKind ==
    \A data_type \in {COMPONENT_INPUT, COMPONENT_OUTPUT} :
        LET d == dir[Replayed]
            picks == IF LatestFiles(d, data_type) = {} THEN {NoPick}
                     ELSE LatestFiles(d, data_type)
        IN  \A pick \in picks :
                LET found == get_latest_envelope(d, data_type, pick)
                IN  /\ IsSome(found) => Get(found).data_type = data_type
                    /\ SavedAs(d, data_type) = {} => found = NoneR

-----------------------------------------------------------------------------
(* Properties of replay under an input-adaptation hook (SpecFaithful) *)

\* C24: when a run with no input source replays the input sample its
\* component persisted last, the validated input handed to the transformation
\* hook equals the one handed to it in the run that saved the sample, whatever
\* the component's prepare_input, so that the same output value is returned.
C24_ReplayFaithful ==
    (/\ ReplayAfterSave
     /\ Get(call).trace.resolved
            = load_sample(dir[Get(call).c], Get(prevInput).name)) =>
        /\ Get(call).trace.validated = Get(prevInput).validated
        /\ Succeeded

-----------------------------------------------------------------------------
(* Properties of the input-source label (Spec) *)

\* The label the specification gives to a resolution variant; a pair of a
\* component and a file name has a label of its own, here "sample".
ExpectedLabel(src) ==
    CASE src.kind = "dict" -> {"dict"}
      [] src.kind = "model" -> {"model:TextInput"}
      [] src.kind = "result" -> {"component_result"}
      [] src.kind = "envelope" -> {"data_envelope"}
      [] src.kind = "component" -> {"component:" \o src.c2}
      [] src.kind = "str" -> {"file"}
      [] src.kind = "none" -> {"latest_saved_input"}
      [] OTHER -> {"sample"}

\* C25: when a run has resolved its input, the metadata's input-source label
\* names the variant that resolved it: a mapping, a model, a component result,
\* a data envelope, a component, a file, and for a pair of a component and a
\* file name a label that is not "unknown"; no two variants share a label.
C25_SourceLabel ==
    (IsSome(call) /\ IsSome(last) /\ IsSome(Get(call).trace.resolved)) =>
        LET label == Get(last).metadata.input_source_type
            src == Get(call).src
        IN  /\ src.kind # "tuple" => label \in ExpectedLabel(src)
            /\ src.kind = "tuple" => label # "unknown"
            /\ \A kind \in {"dict", "model", "result", "envelope", "str", "none"} \ {src.kind} :
                  label \notin ExpectedLabel([kind |-> kind])

-----------------------------------------------------------------------------
(* Properties of failures passed down a chain (SpecDown) *)

\* C26: a run whose input source is a failure Result, one with no value and
\* no envelope, returns a failure Result and never invokes its transformation
\* hook, whatever the input schema of its component.
C26_FailuresPropagate ==
    [][(/\ runs' = runs + 1
        /\ Get(call').src.kind = "result"
        /\ IsSome(last) /\ Get(last).error # NoError
        /\ Get(last).data = NoneR /\ Get(last).envelope = NoneR) =>
            /\ IsSome(last') /\ Get(last').error # NoError
            /\ Get(last').data = NoneR
            /\ Get(call').trace.process_calls = 0
            /\ Get(call').trace.hook = "not_called"]_vars

====
